---- MODULE Spec2Model ----
(***************************************************************************)
(* Model of app.py: the request orchestrator (api / handle_request), the   *)
(* sandbox runtime (call_python_script, _get_docker_client) and the JSON   *)
(* handling that decides the plan, the interim mapping and the response.   *)
(***************************************************************************)
EXTENDS Integers, Sequences, FiniteSets, TLC

(***************************************************************************)
(* Texts.  A text (a Python str produced by the reasoning provider or by a *)
(* sandbox process) is a sequence of lexical tokens.  A token is a record  *)
(* [k, s]: k is its lexical class, s its spelling.                         *)
(***************************************************************************)
P(s) == [k |-> "p", s |-> s]
S(s) == [k |-> "str", s |-> s]
N(s) == [k |-> "num", s |-> s]
L(s) == [k |-> "lit", s |-> s]
W(s) == [k |-> "ws", s |-> s]
X(s) == [k |-> "word", s |-> s]

(***************************************************************************)
(* Python values obtained from json.loads, as tagged tuples:               *)
(*   <<"null">>  <<"nan">>  <<"num", s>>  <<"str", s>>                     *)
(*   <<"arr", sequence of values>>  <<"obj", function key -> value>>       *)
(* A str that is a whole text (raw provider or process output) is          *)
(* <<"text", tokens>>.                                                     *)
(***************************************************************************)
PyNone == <<"null">>
PyText(t) == <<"text", t>>
EmptyDict == [k \in {} |-> PyNone]
PyDict(f) == <<"obj", f>>
IsDict(v) == v[1] = "obj"

\* dict.update / item assignment: the right operand's keys overwrite.
DictUpdate(d, e) ==
    [k \in (DOMAIN d) \cup (DOMAIN e) |-> IF k \in DOMAIN e THEN e[k] ELSE d[k]]

\* dict.get(key, default)
DictGet(d, key, default) == IF key \in DOMAIN d THEN d[key] ELSE default

\* Python truthiness of a value (used by `block.get("code") or ""`).
Truthy(v) ==
    CASE v[1] = "null" -> FALSE
      [] v[1] = "nan" -> TRUE
      [] v[1] = "num" -> v[2] # "0"
      [] v[1] = "str" -> v[2] # ""
      [] v[1] = "text" -> v[2] # << >>
      [] v[1] = "arr" -> v[2] # << >>
      [] v[1] = "obj" -> DOMAIN v[2] # {}

\* str.strip(): drop leading and trailing whitespace.
RECURSIVE LStrip(_)
LStrip(t) == IF t # << >> /\ Head(t).k = "ws" THEN LStrip(Tail(t)) ELSE t
RECURSIVE RStrip(_)
RStrip(t) ==
    IF t # << >> /\ t[Len(t)].k = "ws" THEN RStrip(SubSeq(t, 1, Len(t) - 1)) ELSE t
Strip(t) == RStrip(LStrip(t))

(***************************************************************************)
(* json.loads as a recursive-descent parser over tokens.  A parse result   *)
(* is [ok, v, nxt]: success flag, the value, the index after the value.    *)
(***************************************************************************)
ParseFail == [ok |-> FALSE, v |-> PyNone, nxt |-> 0]
ParseOk(v, nxt) == [ok |-> TRUE, v |-> v, nxt |-> nxt]

\* The whitespace json.loads skips (space, tab, newline, carriage return);
\* str.strip() removes every Unicode whitespace, e.g. the form feed too.
JsonWs == {" ", "\n"}

RECURSIVE SkipWs(_, _)
SkipWs(t, i) ==
    IF i <= Len(t) /\ t[i].k = "ws" /\ t[i].s \in JsonWs THEN SkipWs(t, i + 1) ELSE i

IsTok(t, i, tok) == i <= Len(t) /\ t[i] = tok

RECURSIVE ParseValue(_, _)
RECURSIVE ParseElems(_, _, _)
RECURSIVE ParseMembers(_, _, _)

ParseValue(t, i) ==
    LET j == SkipWs(t, i) IN
    IF j > Len(t) THEN ParseFail
    ELSE CASE t[j].k = "num" -> ParseOk(<<"num", t[j].s>>, j + 1)
           [] t[j].k = "str" -> ParseOk(<<"str", t[j].s>>, j + 1)
           [] t[j] = L("null") -> ParseOk(PyNone, j + 1)
           [] t[j] = L("NaN") -> ParseOk(<<"nan">>, j + 1)
           [] t[j] = P("[") ->
                IF IsTok(t, SkipWs(t, j + 1), P("]"))
                THEN ParseOk(<<"arr", << >>>>, SkipWs(t, j + 1) + 1)
                ELSE ParseElems(t, j + 1, << >>)
           [] t[j] = P("{") ->
                IF IsTok(t, SkipWs(t, j + 1), P("}"))
                THEN ParseOk(PyDict(EmptyDict), SkipWs(t, j + 1) + 1)
                ELSE ParseMembers(t, j + 1, EmptyDict)
           [] OTHER -> ParseFail

\* elements of an array after "[" or ",": a value, then "," or "]"
ParseElems(t, i, acc) ==
    LET e == ParseValue(t, i) IN
    IF ~e.ok THEN ParseFail
    ELSE LET j == SkipWs(t, e.nxt) IN
         IF IsTok(t, j, P(",")) THEN ParseElems(t, j + 1, Append(acc, e.v))
         ELSE IF IsTok(t, j, P("]")) THEN ParseOk(<<"arr", Append(acc, e.v)>>, j + 1)
         ELSE ParseFail

\* members of an object after "{" or ",": "key" : value, then "," or "}".
\* A repeated key keeps the last value, as the Python dict does.
ParseMembers(t, i, acc) ==
    LET j == SkipWs(t, i) IN
    IF ~(j <= Len(t) /\ t[j].k = "str") THEN ParseFail
    ELSE LET c == SkipWs(t, j + 1) IN
         IF ~IsTok(t, c, P(":")) THEN ParseFail
         ELSE LET e == ParseValue(t, c + 1) IN
              IF ~e.ok THEN ParseFail
              ELSE LET n == SkipWs(t, e.nxt)
                       d == DictUpdate(acc, [k \in {t[j].s} |-> e.v])
                   IN IF IsTok(t, n, P(",")) THEN ParseMembers(t, n + 1, d)
                      ELSE IF IsTok(t, n, P("}")) THEN ParseOk(PyDict(d), n + 1)
                      ELSE ParseFail

\* json.loads(text): [ok |-> FALSE] stands for the raised exception
\* (JSONDecodeError); trailing non-whitespace is "Extra data".
json_loads(t) ==
    LET r == ParseValue(t, 1) IN
    IF r.ok /\ SkipWs(t, r.nxt) = Len(t) + 1 THEN r ELSE ParseFail

\* JSONResponse(v) renders in its constructor:
\* json.dumps(v, ensure_ascii=False, allow_nan=False).encode("utf-8").  It
\* raises ValueError for a NaN anywhere in the value and UnicodeEncodeError
\* for a string holding an unpaired surrogate.
LoneSurrogate == "\\ud800"
RECURSIVE Renderable(_)
Renderable(v) ==
    CASE v[1] = "nan" -> FALSE
      [] v[1] = "str" -> v[2] # LoneSurrogate
      [] v[1] = "arr" -> \A i \in 1..Len(v[2]) : Renderable(v[2][i])
      [] v[1] = "obj" -> \A k \in DOMAIN v[2] : Renderable(v[2][k])
      [] OTHER -> TRUE

\* bytes.decode("utf-8", errors="replace"): an invalid byte sequence becomes
\* the replacement character, everything else is kept.
Decode(b) == [n \in 1..Len(b) |-> IF b[n].k = "bad" THEN X("U+FFFD") ELSE b[n]]

\* open(..., encoding="utf-8", errors="ignore").read(): invalid bytes vanish.
RECURSIVE DecodeIgnore(_)
DecodeIgnore(b) ==
    IF b = << >> THEN << >>
    ELSE IF Head(b).k = "bad" THEN DecodeIgnore(Tail(b))
    ELSE <<Head(b)>> \o DecodeIgnore(Tail(b))

(***************************************************************************)
(* File names.  A name is a sequence of spelling atoms; str.lower() maps   *)
(* each atom to its lower-case spelling.                                   *)
(***************************************************************************)
LowerAtom(a) ==
    CASE a = "QUESTIONS.TXT" -> "questions.txt"
      [] a = "Questions.txt" -> "questions.txt"
      [] OTHER -> a
Lower(name) == [n \in 1..Len(name) |-> LowerAtom(name[n])]

\* A selection that takes any named file for the question file.
IsQuestionNameAny(name) == name # << >>

\* name.lower().endswith("questions.txt")
IsQuestionName(name) ==
    name # << >> /\ Lower(name)[Len(name)] = "questions.txt"

\* next((f for f in files if f.filename and ...endswith("questions.txt")), None):
\* the index of the first match, 0 for None.
RECURSIVE FirstQuestion(_, _)
FirstQuestion(fs, n) ==
    IF n > Len(fs) THEN 0
    ELSE IF IsQuestionName(fs[n].filename) THEN n
    ELSE FirstQuestion(fs, n + 1)

\* [f for f in files if f is not qfile], as indices into files
Attachments(fs, q) ==
    LET RECURSIVE Go(_)
        Go(n) == IF n > Len(fs) THEN << >>
                 ELSE IF n = q THEN Go(n + 1) ELSE <<n>> \o Go(n + 1)
    IN Go(1)

(***************************************************************************)
(* The inputs the environment can supply: uploaded file lists, the texts   *)
(* the reasoning provider returns, the bytes a sandbox process prints.     *)
(***************************************************************************)
NReq == 2
Reqs == 1..NReq

File(name, content) == [filename |-> name, content |-> content]
QName == <<"questions.txt">>
QUpper == <<"QUESTIONS.TXT">>
QPrefixed == <<"my_", "questions.txt">>
DataName == <<"data", ".csv">>
ScriptName == <<"script.py">>

UploadsRich ==
    { <<File(DataName, <<X("d1")>>)>>,
      <<File(QName, <<X("q1")>>)>>,
      <<File(DataName, <<X("d1")>>), File(QUpper, <<X("q1"), [k |-> "bad", s |-> "ff"]>>)>>,
      <<File(QPrefixed, <<X("q1")>>), File(QName, <<X("q2")>>)>> }
UploadsLean == { <<File(DataName, <<X("d1")>>), File(QName, <<X("q1")>>)>> }

Block(c) == <<P("{"), S("code"), P(":"), c, P("}")>>
PlanText(blocks, fmt) ==
    <<P("{"), S("python_blocks"), P(":"), P("[")>> \o blocks
      \o <<P("]"), P(","), S("final_format"), P(":"), S(fmt), P("}")>>
NotJson == <<X("not"), W(" "), X("json")>>
Truncated == <<P("{"), S("python_blocks"), P(":"), P("[")>>
PlannerRich ==
    { NotJson,
      Truncated,
      <<P("["), N("1"), P("]")>>,
      <<L("null")>>,
      <<P("{"), S("final_format"), P(":"), S("object"), P("}")>>,
      <<P("{"), S("python_blocks"), P(":"), L("null"), P("}")>>,
      PlanText(Block(S("c1")), "array"),
      PlanText(Block(S("c1")) \o <<P(",")>> \o Block(S("c2")), "object"),
      PlanText(Block(S("c1")) \o <<P(","), N("1")>>, "array"),
      PlanText(Block(N("1")), "array"),
      PlanText(<<P("{"), P("}")>>, "object") }
PlannerLean == { PlanText(Block(S("c1")), "array") }

OutX(n) == <<P("{"), S("x"), P(":"), N(n), P("}")>>
OutputsRich ==
    { OutX("1") \o <<W("\n")>>,
      OutX("2"),
      <<W("\f")>> \o <<P("{"), S("y"), P(":"), N("1"), P("}")>> \o <<W("\f")>>,
      <<P("{"), S("block_0_raw"), P(":"), N("1"), P("}")>>,
      <<P("{"), P("}")>>,
      <<P("["), N("1"), P("]")>>,
      <<X("Traceback"), W(" "), [k |-> "bad", s |-> "ff"], W("\n")>>,
      << >> }
OutputsLean == { OutX("1") }

AssemblerRich ==
    { <<P("["), N("1"), P(","), N("2"), P("]")>>,
      <<P("{"), S("a"), P(":"), N("1"), P("}")>>,
      <<N("42")>>,
      <<L("NaN")>>,
      <<S(LoneSurrogate)>>,
      <<X("plain"), W(" "), X("answer")>> }
AssemblerLean == { <<P("["), N("1"), P("]")>> }

Rich == [active |-> {1}, uploads |-> UploadsRich, planner |-> PlannerRich,
         outputs |-> OutputsRich, assembler |-> AssemblerRich]
Lean == [active |-> Reqs, uploads |-> UploadsLean, planner |-> PlannerLean,
         outputs |-> OutputsLean, assembler |-> AssemblerLean]

(***************************************************************************)
(* State.                                                                  *)
(***************************************************************************)
VARIABLES
    env,            \* which range of inputs the environment draws from: "Rich" or "Lean"
    pc,             \* per request: position in api / handle_request
    files,          \* per request: the uploaded files
    expired,        \* per request: the wait_for timer has elapsed
    response,       \* per request: what api returned
    workdir,        \* per request: the TemporaryDirectory on the host
    loc,            \* per request: locals of handle_request / call_python_script
    sent,           \* per request: the calls made to the reasoning provider
    running,        \* the request whose synchronous code holds the event loop
    docker_client,  \* the module global _docker_client
    imageLocal,     \* the daemon has python:3.11 locally
    constructed,    \* number of docker.from_env() clients constructed
    pulls,          \* number of images.pull calls made
    containers      \* the daemon's containers, by id

reqVars == <<pc, files, expired, response, workdir, loc, sent, running>>
dockerVars == <<docker_client, imageLocal, constructed, pulls, containers>>
vars == <<env, pc, files, expired, response, workdir, loc, sent, running,
          docker_client, imageLocal, constructed, pulls, containers>>

NoLocals ==
    [qfile |-> 0, atts |-> << >>, k |-> 0, saved_files |-> << >>,
     question_text |-> << >>, planning_json |-> << >>, plan |-> PyNone, interim |-> EmptyDict,
     i |-> 0, outs |-> << >>, full_code |-> [chdir |-> "", code |-> PyNone],
     container |-> 0, exc |-> "", out |-> << >>, final_text |-> << >>]
NoResponse == [status |-> 0, kind |-> "", body |-> PyNone]
NoWorkdir == [created |-> FALSE, exists |-> FALSE, fs |-> [n \in {} |-> << >>]]
WorkdirPath(r) == "/tmp/tmp" \o ToString(r)

Terminal == {"Responded", "Failed"}
SyncStates == {"Planning", "LoopHead", "GetClient", "Create", "Start", "PutArchive",
               "ExecCreate", "Capture", "Blocked", "Finally", "Fold", "Assembling",
               "Responding"}

InitCommon ==
    /\ pc = [r \in Reqs |-> "Idle"]
    /\ files = [r \in Reqs |-> << >>]
    /\ expired = [r \in Reqs |-> FALSE]
    /\ response = [r \in Reqs |-> NoResponse]
    /\ workdir = [r \in Reqs |-> NoWorkdir]
    /\ loc = [r \in Reqs |-> NoLocals]
    /\ sent = [r \in Reqs |-> << >>]
    /\ running = 0
    /\ docker_client = "None"
    /\ imageLocal \in BOOLEAN
    /\ constructed = 0
    /\ pulls = 0
    /\ containers = << >>

Init == env = "Rich" /\ InitCommon
InitMulti == env = "Lean" /\ InitCommon

Env == IF env = "Rich" THEN Rich ELSE Lean

ErrorBody(msg) == PyDict([k \in {"error"} |-> <<"str", msg>>])

\* A directory removed only by code that follows the block's normal end.
CleanupOnReturn(wd, st) ==
    IF st = 200 THEN [wd EXCEPT !.exists = FALSE, !.fs = NoWorkdir.fs] ELSE wd

\* TemporaryDirectory.__exit__: the directory and all it holds are removed,
\* however the `with` block is left (return, exception, cancellation; st is
\* the status api answers with).  A request answered before the block was
\* entered has no directory.
Cleanup(wd, st) == [wd EXCEPT !.exists = FALSE, !.fs = NoWorkdir.fs]

\* The response leaves api: the `with tempfile.TemporaryDirectory()` block has
\* been left (its __exit__ removes the directory), the locals are gone and
\* wait_for has cancelled its timer.
Finish(r, st, kind, body) ==
    /\ pc' = [pc EXCEPT ![r] = IF st \in {200, 400} THEN "Responded" ELSE "Failed"]
    /\ response' = [response EXCEPT ![r] = [status |-> st, kind |-> kind, body |-> body]]
    /\ workdir' = [workdir EXCEPT ![r] = Cleanup(@, st)]
    /\ loc' = [loc EXCEPT ![r] = NoLocals]
    /\ expired' = [expired EXCEPT ![r] = FALSE]
    /\ running' = 0

\* An exception leaves handle_request: api answers 500 with str(e).
Raise(r, e) == Finish(r, 500, "json", ErrorBody(e))

\* api: wait_for schedules handle_request(files) and arms the timer.
Api(r) ==
    /\ running = 0
    /\ r \in Env.active
    /\ pc[r] = "Idle"
    /\ \E fs \in Env.uploads : files' = [files EXCEPT ![r] = fs]
    /\ pc' = [pc EXCEPT ![r] = "Received"]
    /\ UNCHANGED <<env, expired, response, workdir, loc, sent, running>>
    /\ UNCHANGED dockerVars

\* open(dst, "wb"): create or truncate the file dst in the workspace.
OpenWb(wd, name) ==
    [wd EXCEPT !.fs = DictUpdate(wd.fs, [n \in {name} |-> << >>])]
\* w.write(content) on the open file.
WriteFile(wd, name, content) ==
    [wd EXCEPT !.fs = DictUpdate(wd.fs, [n \in {name} |-> content])]

\* handle_request up to its first await: select the question file, answer 400
\* without one, else create the workspace, open questions.txt and await the read.
Receive(r) ==
    /\ running = 0
    /\ pc[r] = "Received"
    /\ LET q == FirstQuestion(files[r], 1) IN
       IF q = 0
       THEN /\ Finish(r, 400, "json", ErrorBody("questions.txt is required"))
            /\ UNCHANGED <<env, files, sent>>
       ELSE /\ pc' = [pc EXCEPT ![r] = "StagingQ"]
            /\ loc' = [loc EXCEPT ![r].qfile = q, ![r].atts = Attachments(files[r], q)]
            /\ workdir' = [workdir EXCEPT ![r] =
                              OpenWb([created |-> TRUE, exists |-> TRUE,
                                      fs |-> NoWorkdir.fs], QName)]
            /\ UNCHANGED <<env, files, expired, response, sent, running>>
    /\ UNCHANGED dockerVars

\* After a write: the `for f in attachments` loop opens the next destination and
\* awaits its read, or, past the last attachment, the code reads the question
\* back and goes on synchronously (the event loop is held from here on).
NextAttachment(r, wd, k, saved) ==
    IF k < Len(loc[r].atts)
    THEN /\ workdir' = [workdir EXCEPT ![r] =
                           OpenWb(wd, files[r][loc[r].atts[k + 1]].filename)]
         /\ loc' = [loc EXCEPT ![r].k = k + 1, ![r].saved_files = saved]
         /\ pc' = [pc EXCEPT ![r] = "StagingAtt"]
         /\ UNCHANGED running
    ELSE /\ workdir' = [workdir EXCEPT ![r] = wd]
         /\ loc' = [loc EXCEPT ![r].saved_files = saved,
                               ![r].question_text = DecodeIgnore(wd.fs[QName])]
         /\ pc' = [pc EXCEPT ![r] = "Planning"]
         /\ running' = r

\* `await qfile.read()` resumes: the question is written.
StageQuestion(r) ==
    /\ running = 0
    /\ pc[r] = "StagingQ"
    /\ NextAttachment(r, WriteFile(workdir[r], QName, files[r][loc[r].qfile].content),
                      0, << >>)
    /\ UNCHANGED <<env, files, expired, response, sent>>
    /\ UNCHANGED dockerVars

\* `await f.read()` resumes: the attachment is written under its file name.
StageAttachment(r) ==
    /\ running = 0
    /\ pc[r] = "StagingAtt"
    /\ LET f == files[r][loc[r].atts[loc[r].k]] IN
          NextAttachment(r, WriteFile(workdir[r], f.filename, f.content), loc[r].k,
                         Append(loc[r].saved_files, f.filename))
    /\ UNCHANGED <<env, files, expired, response, sent>>
    /\ UNCHANGED dockerVars

\* The timer armed by wait_for elapses.
Expire(r) ==
    /\ pc[r] \notin {"Idle", "Received"} \cup Terminal
    /\ ~expired[r]
    /\ expired' = [expired EXCEPT ![r] = TRUE]
    /\ UNCHANGED <<env, pc, files, response, workdir, loc, sent, running>>
    /\ UNCHANGED dockerVars

\* The event loop runs the timer callback: the task is cancelled at the await
\* it is suspended in and api answers 504.  The callback needs the event loop,
\* so it cannot run while synchronous code of any request holds it.
Timeout(r) ==
    /\ running = 0
    /\ expired[r]
    /\ pc[r] \in {"StagingQ", "StagingAtt"}
    /\ Finish(r, 504, "json", ErrorBody("Timed out"))
    /\ UNCHANGED <<env, files, sent>>
    /\ UNCHANGED dockerVars

(***************************************************************************)
(* The synchronous part of handle_request.  None of it awaits, so the      *)
(* event loop is held (running = r) until the response is produced.        *)
(***************************************************************************)
ProviderCall(kind, q, interim, fmt) ==
    [call |-> kind, question |-> q, interim |-> interim, expected_format |-> fmt]

\* A fallback that gives up on the raw text: a plan without code units.
ParsePlanNoUnit(text) ==
    LET r == json_loads(text) IN
    IF r.ok THEN r.v
    ELSE PyDict([k \in {"steps", "python_blocks", "final_format"} |->
                   IF k = "final_format" THEN <<"str", "array">> ELSE <<"arr", << >>>>])

\* try: plan = json.loads(planning_json)  except Exception: plan = {...}
ParsePlan(text) ==
    LET r == json_loads(text) IN
    IF r.ok THEN r.v
    ELSE PyDict([k \in {"steps", "python_blocks", "final_format"} |->
                   CASE k = "steps" -> <<"arr", << >>>>
                     [] k = "python_blocks" ->
                          <<"arr", <<PyDict([f \in {"filename", "code"} |->
                                        IF f = "filename" THEN <<"str", "run.py">>
                                        ELSE PyText(text)])>>>>
                     [] k = "final_format" -> <<"str", "array">>])

\* groq_chat(planning messages), then the parse with its fallback.
Planning(r) ==
    /\ running = r
    /\ pc[r] = "Planning"
    /\ \/ /\ \E text \in Env.planner :
               loc' = [loc EXCEPT ![r].planning_json = text,
                                  ![r].plan = ParsePlan(text),
                                  ![r].interim = EmptyDict, ![r].i = 0]
          /\ pc' = [pc EXCEPT ![r] = "LoopHead"]
          /\ sent' = [sent EXCEPT ![r] =
                Append(@, ProviderCall("plan", loc[r].question_text, EmptyDict, PyNone))]
          /\ UNCHANGED <<response, workdir, running, expired>>
       \/ /\ Raise(r, "ProviderError")
          /\ sent' = [sent EXCEPT ![r] =
                Append(@, ProviderCall("plan", loc[r].question_text, EmptyDict, PyNone))]
    /\ UNCHANGED <<env, files>>
    /\ UNCHANGED dockerVars

\* A Python operation either yields a value or raises.
Val(v) == [ok |-> TRUE, v |-> v, exc |-> ""]
Exc(e) == [ok |-> FALSE, v |-> PyNone, exc |-> e]

\* plan.get(key, default): only a dict has .get
PlanGet(plan, key, default) ==
    IF IsDict(plan) THEN Val(DictGet(plan[2], key, default)) ELSE Exc("AttributeError")

\* enumerate(v): the items a for loop over v visits, or TypeError.
Iterate(v) ==
    CASE v[1] = "arr" -> Val(v[2])
      [] v[1] \in {"str", "text"} -> Val(IF Truthy(v) THEN <<v>> ELSE << >>)
      [] v[1] = "obj" ->
           Val(IF DOMAIN v[2] = {} THEN << >>
               ELSE <<(<<"str", CHOOSE k \in DOMAIN v[2] : TRUE>>)>>)
      [] OTHER -> Exc("TypeError")

\* A loop that runs over the blocks last to first.
PlanBlocksReversed(plan) ==
    LET g == PlanGet(plan, "python_blocks", <<"arr", << >>>>)
        it == Iterate(g.v)
    IN IF ~g.ok THEN g
       ELSE IF ~it.ok THEN it
       ELSE Val([n \in 1..Len(it.v) |-> it.v[Len(it.v) + 1 - n]])

\* plan.get("python_blocks", []) as the sequence the loop runs over
PlanBlocks(plan) ==
    LET g == PlanGet(plan, "python_blocks", <<"arr", << >>>>) IN
    IF g.ok THEN Iterate(g.v) ELSE g

\* code = block.get("code") or "" ; full_code = safe_cd + code
FullCode(block, dir) ==
    IF ~IsDict(block) THEN Exc("AttributeError")
    ELSE LET c == DictGet(block[2], "code", PyNone)
             code == IF Truthy(c) THEN c ELSE <<"str", "">>
         IN IF code[1] \in {"str", "text"}
            THEN Val([chdir |-> dir, code |-> code])
            ELSE Exc("TypeError")

\* The head of `for i, block in enumerate(plan.get("python_blocks", []))`:
\* the next block's code is prepared and call_python_script is entered, or the
\* loop is over and the assembly follows.
LoopHead(r) ==
    /\ running = r
    /\ pc[r] = "LoopHead"
    /\ LET bs == PlanBlocks(loc[r].plan) IN
       IF ~bs.ok THEN Raise(r, bs.exc)
       ELSE IF loc[r].i >= Len(bs.v)
       THEN /\ pc' = [pc EXCEPT ![r] = "Assembling"]
            /\ UNCHANGED <<response, workdir, loc, running, expired>>
       ELSE LET fc == FullCode(bs.v[loc[r].i + 1], WorkdirPath(r)) IN
            IF ~fc.ok THEN Raise(r, fc.exc)
            ELSE /\ pc' = [pc EXCEPT ![r] = "GetClient"]
                 /\ loc' = [loc EXCEPT ![r].full_code = fc.v, ![r].container = 0,
                                       ![r].exc = "", ![r].out = << >>]
                 /\ UNCHANGED <<response, workdir, running, expired>>
    /\ UNCHANGED <<env, files, sent>>
    /\ UNCHANGED dockerVars

\* try: data = json.loads(out.strip()); dict -> update, else block_<i>_raw
\* except Exception: block_<i>_raw
RawKey(i) == "block_" \o ToString(i) \o "_raw"
\* A fold that parses the output without trimming it.
FoldOutNoStrip(interim, i, out) ==
    LET r == json_loads(out) IN
    IF r.ok /\ IsDict(r.v) THEN DictUpdate(interim, r.v[2])
    ELSE DictUpdate(interim, [k \in {RawKey(i)} |-> PyText(out)])

\* A fold that records nothing for a unit that printed nothing.
FoldOutDropEmpty(interim, i, out) ==
    LET r == json_loads(Strip(out)) IN
    IF r.ok /\ IsDict(r.v) THEN DictUpdate(interim, r.v[2])
    ELSE IF out = << >> THEN interim
    ELSE DictUpdate(interim, [k \in {RawKey(i)} |-> PyText(out)])

FoldOut(interim, i, out) ==
    LET r == json_loads(Strip(out)) IN
    IF r.ok /\ IsDict(r.v) THEN DictUpdate(interim, r.v[2])
    ELSE DictUpdate(interim, [k \in {RawKey(i)} |-> PyText(out)])

\* call_python_script returned `out`: fold it and go to the next block.
Fold(r) ==
    /\ running = r
    /\ pc[r] = "Fold"
    /\ loc' = [loc EXCEPT ![r].interim = FoldOut(@, loc[r].i, loc[r].out),
                          ![r].outs = Append(@, loc[r].out),
                          ![r].i = @ + 1]
    /\ pc' = [pc EXCEPT ![r] = "LoopHead"]
    /\ UNCHANGED <<env, files, expired, response, workdir, sent, running>>
    /\ UNCHANGED dockerVars

\* plan.get("final_format", "array") of a plan that is a dict
ExpectedFormat(plan) == PlanGet(plan, "final_format", <<"str", "array">>).v

\* assembler_user = json.dumps({...}); final_text = groq_chat(assembly messages)
Assemble(r) ==
    /\ running = r
    /\ pc[r] = "Assembling"
    /\ sent' = [sent EXCEPT ![r] =
          Append(@, ProviderCall("assemble", loc[r].question_text, loc[r].interim,
                                 ExpectedFormat(loc[r].plan)))]
    /\ \/ /\ \E text \in Env.assembler :
               loc' = [loc EXCEPT ![r].final_text = text]
          /\ pc' = [pc EXCEPT ![r] = "Responding"]
          /\ UNCHANGED <<response, workdir, running, expired>>
       \/ Raise(r, "ProviderError")
    /\ UNCHANGED <<env, files>>
    /\ UNCHANGED dockerVars

\* An assembly step without the plain-text fallback: the error propagates.
FinalResponseNoFallback(final_text) ==
    LET r == json_loads(final_text) IN
    IF r.ok /\ Renderable(r.v)
    THEN [status |-> 200, kind |-> "json", body |-> r.v]
    ELSE [status |-> 500, kind |-> "json", body |-> ErrorBody("JSONDecodeError")]

\* try: final_obj = json.loads(final_text); return JSONResponse(final_obj)
\* except Exception: return PlainTextResponse(final_text)
\* JSONResponse renders in its constructor, inside the try.
FinalResponse(final_text) ==
    LET r == json_loads(final_text) IN
    IF r.ok /\ Renderable(r.v)
    THEN [status |-> 200, kind |-> "json", body |-> r.v]
    ELSE [status |-> 200, kind |-> "text", body |-> PyText(final_text)]

Respond(r) ==
    /\ running = r
    /\ pc[r] = "Responding"
    /\ LET f == FinalResponse(loc[r].final_text) IN Finish(r, f.status, f.kind, f.body)
    /\ UNCHANGED <<env, files, sent>>
    /\ UNCHANGED dockerVars

(***************************************************************************)
(* The sandbox runtime: _get_docker_client and call_python_script.  Each   *)
(* call of the docker SDK either succeeds or raises; which, is the         *)
(* daemon's choice.                                                        *)
(***************************************************************************)
\* A loop that notes nothing for a unit whose call raised and goes on to the
\* next block.
UnitFailedContinue(r, e) ==
    /\ pc' = [pc EXCEPT ![r] = "LoopHead"]
    /\ loc' = [loc EXCEPT ![r].i = @ + 1, ![r].outs = Append(@, << >>),
                          ![r].interim = FoldOut(@, loc[r].i, << >>)]
    /\ UNCHANGED <<response, workdir, expired, running>>

\* call_python_script raised: line 165 is in no try block, so the exception
\* leaves the loop and handle_request, and api answers 500.
UnitFailed(r, e) == Raise(r, e)

\* An initialisation without the `is None` guard.
NeedsInitAlways(client) == TRUE

\* `if _docker_client is None:`
NeedsInit(client) == client = "None"

\* client = _get_docker_client(): on first use construct the client, look the
\* image up and pull it when it is not found.  The global is assigned before the
\* image is looked up, so it stays set when the lookup or the pull raises.
_get_docker_client(r) ==
    /\ running = r
    /\ pc[r] = "GetClient"
    /\ IF ~NeedsInit(docker_client)
       THEN /\ pc' = [pc EXCEPT ![r] = "Create"]
            /\ UNCHANGED <<response, workdir, loc, running, expired>>
            /\ UNCHANGED <<docker_client, imageLocal, constructed, pulls>>
       ELSE \/ \* docker.from_env() raises
               /\ UnitFailed(r, "DockerException")
               /\ UNCHANGED <<docker_client, imageLocal, constructed, pulls>>
            \/ \* images.get finds the image
               /\ imageLocal
               /\ docker_client' = "client"
               /\ constructed' = constructed + 1
               /\ pc' = [pc EXCEPT ![r] = "Create"]
               /\ UNCHANGED <<response, workdir, loc, running, expired, imageLocal, pulls>>
            \/ \* images.get raises something other than ImageNotFound
               /\ docker_client' = "client"
               /\ constructed' = constructed + 1
               /\ UnitFailed(r, "APIError")
               /\ UNCHANGED <<imageLocal, pulls>>
            \/ \* ImageNotFound, and the pull succeeds
               /\ ~imageLocal
               /\ docker_client' = "client"
               /\ constructed' = constructed + 1
               /\ pulls' = pulls + 1
               /\ imageLocal' = TRUE
               /\ pc' = [pc EXCEPT ![r] = "Create"]
               /\ UNCHANGED <<response, workdir, loc, running, expired>>
            \/ \* ImageNotFound, and the pull raises
               /\ ~imageLocal
               /\ docker_client' = "client"
               /\ constructed' = constructed + 1
               /\ pulls' = pulls + 1
               /\ UnitFailed(r, "APIError")
               /\ UNCHANGED imageLocal
    /\ UNCHANGED <<env, files, sent, containers>>

Live == {"Created", "Running"}
NewContainer(r, i) ==
    [state |-> "Created", fs |-> {}, owner |-> r, ord |-> i,
     reached |-> "Created", removal |-> "none"]

\* The members of the tar archive built from the script (lines 50-57).
ArchiveMembers(full_code) == {[dir |-> "/tmp", name |-> ScriptName, data |-> full_code]}

\* What the script's process can leave in its container's filesystem: nothing,
\* or a file it wrote.
OutName == <<"out", ".txt">>
ProcessWrites(r, i) == {{}, {[dir |-> "/tmp", name |-> OutName, data |-> <<r, i>>]}}

\* A runtime that keeps one container and hands it to every call.
CreateContainerShared(cs, r, i) ==
    IF cs = << >> THEN Append(cs, NewContainer(r, i)) ELSE cs

\* client.containers.create(...): the daemon makes a new container, with a new
\* id and the image's filesystem, on every call.
CreateContainer(cs, r, i) == Append(cs, NewContainer(r, i))

\* container = client.containers.create("python:3.11", "sleep infinity"):
\* outside the try, so a failure leaves no container and propagates.
Create(r) ==
    /\ running = r
    /\ pc[r] = "Create"
    /\ \/ /\ imageLocal
          /\ containers' = CreateContainer(containers, r, loc[r].i)
          /\ loc' = [loc EXCEPT ![r].container = Len(containers')]
          /\ pc' = [pc EXCEPT ![r] = "Start"]
          /\ UNCHANGED <<response, workdir, running, expired>>
       \/ /\ UnitFailed(r, IF imageLocal THEN "APIError" ELSE "ImageNotFound")
          /\ UNCHANGED containers
    /\ UNCHANGED <<env, files, sent>>
    /\ UNCHANGED <<docker_client, imageLocal, constructed, pulls>>

\* A statement of the try block raised: control goes to the finally clause
\* with the exception pending.
ToFinally(r, e) ==
    /\ loc' = [loc EXCEPT ![r].exc = e]
    /\ pc' = [pc EXCEPT ![r] = "Finally"]

\* container.start()
Start(r) ==
    /\ running = r
    /\ pc[r] = "Start"
    /\ \/ /\ containers' = [containers EXCEPT ![loc[r].container].state = "Running",
                                               ![loc[r].container].reached = "Running"]
          /\ pc' = [pc EXCEPT ![r] = "PutArchive"]
          /\ UNCHANGED loc
       \/ /\ ToFinally(r, "APIError")
          /\ UNCHANGED containers
    /\ UNCHANGED <<env, files, expired, response, workdir, sent, running>>
    /\ UNCHANGED <<docker_client, imageLocal, constructed, pulls>>

\* container.put_archive(path="/tmp", data=tarstream.read())
PutArchive(r) ==
    /\ running = r
    /\ pc[r] = "PutArchive"
    /\ \/ /\ containers' = [containers EXCEPT ![loc[r].container].fs =
                               @ \cup ArchiveMembers(loc[r].full_code)]
          /\ pc' = [pc EXCEPT ![r] = "ExecCreate"]
          /\ UNCHANGED loc
       \/ /\ ToFinally(r, "APIError")
          /\ UNCHANGED containers
    /\ UNCHANGED <<env, files, expired, response, workdir, sent, running>>
    /\ UNCHANGED <<docker_client, imageLocal, constructed, pulls>>

\* exec_id = client.api.exec_create(container.id, cmd="python /tmp/script.py")
ExecCreate(r) ==
    /\ running = r
    /\ pc[r] = "ExecCreate"
    /\ \/ /\ pc' = [pc EXCEPT ![r] = "Capture"]
          /\ UNCHANGED loc
       \/ ToFinally(r, "APIError")
    /\ UNCHANGED <<env, files, expired, response, workdir, sent, running>>
    /\ UNCHANGED dockerVars

\* output = exec_start(...); the chunks are collected until the stream ends and
\* decoded; `return` leaves through the finally clause.  The stream can raise.
\* Nothing bounds the loop (timeout_sec is not used): while the process neither
\* exits nor closes its output, `for chunk in output` waits for the next chunk,
\* holding the event loop.
Capture(r) ==
    /\ running = r
    /\ pc[r] = "Capture"
    /\ \/ /\ \E bytes \in Env.outputs :
               loc' = [loc EXCEPT ![r].out = Decode(bytes), ![r].exc = ""]
          /\ \E w \in ProcessWrites(r, loc[r].i) :
               containers' = [containers EXCEPT ![loc[r].container].fs = @ \cup w]
          /\ pc' = [pc EXCEPT ![r] = "Finally"]
       \/ /\ ToFinally(r, "APIError")
          /\ UNCHANGED containers
       \/ /\ pc' = [pc EXCEPT ![r] = "Blocked"]
          /\ UNCHANGED <<loc, containers>>
    /\ UNCHANGED <<env, files, expired, response, workdir, sent, running>>
    /\ UNCHANGED <<docker_client, imageLocal, constructed, pulls>>

\* A teardown placed after the try block instead of in a finally clause: it is
\* skipped when the block raised.
RemoveOutcomesOnSuccess(exc) == IF exc = "" THEN {"removed", "raised"} ELSE {"skipped"}

\* What container.remove(force=True) in the finally clause can do.  The clause
\* runs whatever happened in the try block (exc is the pending exception, ""
\* for none): the container is removed, or the removal raises.
RemoveOutcomes(exc) == {"removed", "raised"}

\* The daemon's container after the finally clause: a removed container is
\* gone with its filesystem; one whose removal raised is as it was.  (reached
\* keeps the last state it had while live, removal what the clause did.)
AfterRemove(c, outcome) ==
    IF outcome = "removed"
    THEN [c EXCEPT !.state = "Destroyed", !.fs = {}, !.removal = "removed"]
    ELSE IF outcome = "raised" THEN [c EXCEPT !.removal = "raised"]
    ELSE c

\* A finally clause without the inner try: an exception of the removal
\* replaces whatever was pending.
PendingAfterRemoveBare(exc, outcome) == IF outcome = "raised" THEN "APIError: remove" ELSE exc

\* The exception pending when the finally clause is done: `except Exception:
\* pass` swallows what the removal raised, so it is the one pending before
\* ("" for none).
PendingAfterRemove(exc, outcome) == exc

\* finally: try: container.remove(force=True)  except Exception: pass
\* Then the pending exception propagates or `out` is returned.
Finally(r) ==
    /\ running = r
    /\ pc[r] = "Finally"
    /\ \E o \in RemoveOutcomes(loc[r].exc) :
          /\ containers' = [containers EXCEPT ![loc[r].container] = AfterRemove(@, o)]
          /\ LET e == PendingAfterRemove(loc[r].exc, o) IN
             IF e = ""
             THEN /\ pc' = [pc EXCEPT ![r] = "Fold"]
                  /\ UNCHANGED <<response, workdir, loc, running, expired>>
             ELSE UnitFailed(r, e)
    /\ UNCHANGED <<env, files, sent>>
    /\ UNCHANGED <<docker_client, imageLocal, constructed, pulls>>

(***************************************************************************)
(* Specifications: one request with the full range of inputs, and several  *)
(* requests sharing the process with a small range of inputs.              *)
(***************************************************************************)
Next ==
    \E r \in Reqs :
        \/ Api(r)
        \/ Receive(r)
        \/ StageQuestion(r)
        \/ StageAttachment(r)
        \/ Expire(r)
        \/ Timeout(r)
        \/ Planning(r)
        \/ LoopHead(r)
        \/ _get_docker_client(r)
        \/ Create(r)
        \/ Start(r)
        \/ PutArchive(r)
        \/ ExecCreate(r)
        \/ Capture(r)
        \/ Finally(r)
        \/ Fold(r)
        \/ Assemble(r)
        \/ Respond(r)

Spec == Init /\ [][Next]_vars
SpecMulti == InitMulti /\ [][Next]_vars
\* A step of call_python_script, from its first line to its return or raise.
CallStep(r) ==
    \/ _get_docker_client(r)
    \/ Create(r)
    \/ Start(r)
    \/ PutArchive(r)
    \/ ExecCreate(r)
    \/ Capture(r)
    \/ Finally(r)

\* The call is synchronous code: once entered, the interpreter keeps running
\* it, statement after statement, as long as a statement can run.
SpecFair == Init /\ [][Next]_vars /\ WF_vars(\E r \in Reqs : CallStep(r))

(***************************************************************************)
(* Properties.                                                             *)
(***************************************************************************)
QuestionNames == {QName, QUpper, QPrefixed, <<"Questions.txt">>}
\* An upload none of whose file names ends in questions.txt.
NoQuestionUpload(fs) ==
    fs # << >> /\ \A n \in 1..Len(fs) : fs[n].filename \notin QuestionNames

\* C1: a request whose upload has no file ending in questions.txt is answered
\* 400 by handle_request's first step, and nothing of the sandbox runtime has
\* been touched for it: no docker client, no image lookup or pull, no container,
\* (and no provider call or workspace either).
C1_NoQuestionNoProvisioning ==
    \A r \in Reqs :
        (pc[r] # "Idle" /\ NoQuestionUpload(files[r])) =>
            /\ pc[r] \in {"Received", "Responded"}
            /\ pc[r] = "Responded" => response[r].status = 400
            /\ docker_client = "None" /\ constructed = 0 /\ pulls = 0
            /\ \A c \in DOMAIN containers : containers[c].owner # r
            /\ sent[r] = << >> /\ ~workdir[r].created

C1_Witness ==
    \E r \in Reqs :
        /\ NoQuestionUpload(files[r])
        /\ pc[r] = "Responded"
        /\ response[r] = [status |-> 400, kind |-> "json",
                          body |-> ErrorBody("questions.txt is required")]

\* C2 (as claimed): whenever the deadline has expired before the request
\* reaches its terminal state, the response is the timeout status 504.
C2_DeadlineGives504 ==
    [][\A r \in Reqs :
          (expired[r] /\ pc[r] \notin Terminal /\ pc'[r] \in Terminal)
              => (pc'[r] = "Failed" /\ response'[r].status = 504)]_vars

\* call_python_script is between container creation and its return or raise.
InCall(r) ==
    pc[r] \in {"Start", "PutArchive", "ExecCreate", "Capture", "Blocked", "Finally"}
\* The call that created container c has returned or raised.
CallOver(c) == ~(InCall(containers[c].owner) /\ loc[containers[c].owner].container = c)

\* C3 (as claimed): every unit whose call has returned or raised is Destroyed,
\* so a request in a terminal state has no live unit.
C3_UnitsDestroyedAfterCall ==
    \A c \in DOMAIN containers : CallOver(c) => containers[c].state = "Destroyed"

\* C3 (amended): for every unit whose call has returned or raised, the forced
\* removal has been attempted, on every exit path; the unit is Destroyed unless
\* that removal itself raised (which is swallowed).
C3_RemovalAlwaysAttempted ==
    \A c \in DOMAIN containers :
        CallOver(c) =>
            \/ containers[c].removal = "removed" /\ containers[c].state = "Destroyed"
            \/ containers[c].removal = "raised" /\ containers[c].state \in Live

\* A unit whose start() raised (it never ran) was removed, and its request
\* failed with that error.
C3_Witness ==
    \E c \in DOMAIN containers :
        /\ containers[c].reached = "Created"
        /\ containers[c].state = "Destroyed"
        /\ pc[containers[c].owner] = "Failed"
        /\ response[containers[c].owner].status = 500

\* The planner has answered and the request has not finished.
Planned(r) == pc[r] \in SyncStates \ {"Planning"}

\* C4: when the planner text is not parseable JSON, the plan in use has empty
\* steps, exactly one code unit whose code is the raw text, final_format
\* "array", and the loop head accepts it (the unit goes to execution).
C4_PlanParseFallback ==
    \A r \in Reqs :
        (Planned(r) /\ ~json_loads(loc[r].planning_json).ok) =>
            LET plan == loc[r].plan IN
            /\ IsDict(plan)
            /\ DOMAIN plan[2] = {"steps", "python_blocks", "final_format"}
            /\ plan[2]["steps"] = <<"arr", << >>>>
            /\ plan[2]["final_format"] = <<"str", "array">>
            /\ plan[2]["python_blocks"][1] = "arr"
            /\ Len(plan[2]["python_blocks"][2]) = 1
            /\ IsDict(plan[2]["python_blocks"][2][1])
            /\ plan[2]["python_blocks"][2][1][2]["code"] = PyText(loc[r].planning_json)
            /\ (pc[r] = "LoopHead" /\ loc[r].i = 0) =>
                  /\ PlanBlocks(plan).ok
                  /\ FullCode(PlanBlocks(plan).v[1], WorkdirPath(r)).ok
            /\ pc[r] \in {"GetClient", "Create", "Start", "PutArchive", "ExecCreate",
                          "Capture", "Finally"} =>
                  loc[r].full_code.code = PyText(loc[r].planning_json)

\* The raw planner text is running as the only code unit.
C4_Witness ==
    \E r \in Reqs :
        /\ pc[r] = "Capture"
        /\ ~json_loads(loc[r].planning_json).ok
        /\ loc[r].i = 0
        /\ loc[r].full_code.code = PyText(loc[r].planning_json)

\* What the unit at ordinal i writes: every key of its output when the trimmed
\* output parses to a mapping, else the one key block_<i>_raw with the raw
\* output.
Writes(i, out) ==
    LET p == json_loads(Strip(out)) IN
    IF p.ok /\ IsDict(p.v) THEN p.v[2]
    ELSE [k \in {"block_" \o ToString(i) \o "_raw"} |-> PyText(out)]

\* The mapping in which every key holds what the last unit writing it wrote.
LastWrites(outs) ==
    LET keys == UNION {DOMAIN Writes(j - 1, outs[j]) : j \in 1..Len(outs)}
        last(k) == CHOOSE j \in 1..Len(outs) :
                      /\ k \in DOMAIN Writes(j - 1, outs[j])
                      /\ \A m \in (j + 1)..Len(outs) : k \notin DOMAIN Writes(m - 1, outs[m])
    IN [k \in keys |-> Writes(last(k) - 1, outs[last(k)])[k]]

\* C5: the interim mapping is the left-to-right fold of the outputs folded so
\* far (last write wins, block_<i>_raw for what is not a mapping), and when the
\* assembly starts all N units of the plan have been folded.
C5_MergePolicy ==
    \A r \in Reqs :
        Planned(r) =>
            /\ loc[r].interim = LastWrites(loc[r].outs)
            /\ loc[r].i = Len(loc[r].outs)
            /\ pc[r] = "Assembling" => Len(loc[r].outs) = Len(PlanBlocks(loc[r].plan).v)

\* Two units printed {"x":1} and {"x":2}: x is 2 when the assembly starts.
C5_Witness ==
    \E r \in Reqs :
        /\ pc[r] = "Assembling"
        /\ loc[r].outs = <<OutX("1") \o <<W("\n")>>, OutX("2")>>
        /\ loc[r].interim = [k \in {"x"} |-> <<"num", "2">>]

\* C6 (as claimed): the assembler text is answered with status 200, as the
\* parsed JSON value when json.loads accepts it and as the verbatim text
\* otherwise.
C6_AssemblyFallback ==
    [][\A r \in Reqs :
          (pc[r] = "Responding" /\ pc'[r] \in Terminal) =>
              LET p == json_loads(loc[r].final_text) IN
              /\ pc'[r] = "Responded"
              /\ response'[r].status = 200
              /\ IF p.ok
                 THEN response'[r].kind = "json" /\ response'[r].body = p.v
                 ELSE /\ response'[r].kind = "text"
                      /\ response'[r].body = PyText(loc[r].final_text)]_vars

\* C6 (amended): status 200 always; the parsed value as JSON when the text
\* parses and the value can be rendered, the verbatim text in every other case.
C6_AssemblyFallbackRenderable ==
    [][\A r \in Reqs :
          (pc[r] = "Responding" /\ pc'[r] \in Terminal) =>
              LET p == json_loads(loc[r].final_text) IN
              /\ pc'[r] = "Responded"
              /\ response'[r].status = 200
              /\ IF p.ok /\ Renderable(p.v)
                 THEN response'[r].kind = "json" /\ response'[r].body = p.v
                 ELSE /\ response'[r].kind = "text"
                      /\ response'[r].body = PyText(loc[r].final_text)]_vars

C6_Witness ==
    \E r \in Reqs :
        /\ pc[r] = "Responded"
        /\ response[r] = [status |-> 200, kind |-> "text",
                          body |-> PyText(<<X("plain"), W(" "), X("answer")>>)]

\* C7 (as claimed): no request fails with an error raised by the shape of the
\* plan (AttributeError from .get on a non-mapping, TypeError from iterating
\* or concatenating a value of the wrong type).
C7_PlanShapeNeverFails ==
    \A r \in Reqs :
        pc[r] = "Failed" =>
            response[r].body \notin {ErrorBody("AttributeError"), ErrorBody("TypeError")}

\* C8 (as claimed): when the unit's code is about to be executed, every file
\* of the request's workspace is in the unit's filesystem.
C8_WorkspaceInjected ==
    \A r \in Reqs :
        pc[r] = "Capture" =>
            \A name \in DOMAIN workdir[r].fs :
                \E m \in containers[loc[r].container].fs :
                    m.dir = WorkdirPath(r) /\ m.name = name

\* The top-level shape of a JSON value.
Shape(v) == IF v[1] = "arr" THEN "array" ELSE IF v[1] = "obj" THEN "object" ELSE "scalar"

\* C9 (as claimed): a JSON body returned with success has the top-level shape
\* the plan's final_format asked for.
C9_ShapeMatchesFormat ==
    \A r \in Reqs :
        (pc[r] = "Responded" /\ response[r].status = 200 /\ response[r].kind = "json") =>
            <<"str", Shape(response[r].body)>> = sent[r][Len(sent[r])].expected_format

\* C10: over all calls of _get_docker_client by all requests, at most one
\* client is constructed (exactly one once the global is set), the image is
\* pulled at most once, and a call made once the global is set returns the
\* client without raising, constructing or pulling.
C10_ClientInitOnce ==
    [][/\ constructed' <= 1
       /\ pulls' <= 1
       /\ docker_client' = "client" => constructed' = 1
       /\ \A r \in Reqs :
             (pc[r] = "GetClient" /\ docker_client = "client" /\ pc'[r] # pc[r]) =>
                 (pc'[r] = "Create" /\ constructed' = constructed /\ pulls' = pulls)]_vars

\* Two requests each got the client and created a unit; one construction, one pull.
C10_Witness ==
    /\ constructed = 1
    /\ pulls = 1
    /\ \E c, d \in DOMAIN containers : containers[c].owner # containers[d].owner

\* The units request r has created.
UnitsOf(r) == {c \in DOMAIN containers : containers[c].owner = r}
\* The calls of call_python_script by r that got past container creation: one
\* per block folded so far, and the current one.
CallsStarted(r) == loc[r].i + (IF InCall(r) \/ pc[r] = "Fold" THEN 1 ELSE 0)

\* C11: every call that gets past creation has a unit of its own (no two units
\* stand for the same call, and the unit in use is the one created for this
\* call); a request has created as many units as it has started calls; and all
\* a unit's filesystem ever holds, beyond the image, is its own call's script
\* and what its own process wrote: empty when it starts, never a file of an
\* earlier unit.
C11_Isolation ==
    /\ \A c, d \in DOMAIN containers :
          (containers[c].owner = containers[d].owner /\ containers[c].ord = containers[d].ord)
              => c = d
    /\ \A r \in Reqs :
          /\ InCall(r) =>
                /\ loc[r].container \in DOMAIN containers
                /\ containers[loc[r].container].owner = r
                /\ containers[loc[r].container].ord = loc[r].i
                /\ containers[loc[r].container].removal = "none"
                /\ LET fs == containers[loc[r].container].fs IN
                      CASE pc[r] \in {"Start", "PutArchive"} -> fs = {}
                        [] pc[r] \in {"ExecCreate", "Capture", "Blocked"} ->
                             fs = ArchiveMembers(loc[r].full_code)
                        [] OTHER ->
                             \E w \in ProcessWrites(r, loc[r].i) :
                                 fs \subseteq ArchiveMembers(loc[r].full_code) \cup w
          /\ pc[r] \in SyncStates => Cardinality(UnitsOf(r)) = CallsStarted(r)
    /\ \A c \in DOMAIN containers :
          \A m \in containers[c].fs :
              m.name = OutName => m.data = <<containers[c].owner, containers[c].ord>>

\* The second unit of a request is running its own script while the first,
\* whose removal raised, still holds the file its process wrote.
C11_Witness ==
    \E r \in Reqs :
        /\ pc[r] = "Capture"
        /\ loc[r].i = 1
        /\ \E c \in UnitsOf(r) :
              /\ containers[c].ord = 0
              /\ containers[c].state \in Live
              /\ \E m \in containers[c].fs : m.name = OutName
        /\ \A m \in containers[loc[r].container].fs : m.name = ScriptName

\* C12: a request that has finished has no workspace directory left, whatever
\* it finished with; until then a workspace that was created exists and holds
\* the staged question file.
C12_WorkspaceScoped ==
    \A r \in Reqs :
        /\ pc[r] \in Terminal => (~workdir[r].exists /\ DOMAIN workdir[r].fs = {})
        /\ (pc[r] \notin Terminal /\ workdir[r].created) =>
              (workdir[r].exists /\ QName \in DOMAIN workdir[r].fs)

\* A request cancelled by the deadline while staging: it had a workspace, and
\* the workspace is gone.
C12_Witness ==
    \E r \in Reqs :
        /\ pc[r] = "Failed"
        /\ response[r].status = 504
        /\ workdir[r].created
        /\ ~workdir[r].exists

\* C13 (as claimed): a call of call_python_script that has been entered
\* eventually returns its output (to the fold) or raises (the request is then
\* in a terminal state), so that no request stays inside a call for ever.
C13_CallReturnsOrRaises ==
    \A r \in Reqs : (pc[r] = "GetClient") ~> (pc[r] \in {"Fold"} \cup Terminal)

\* The fold of the output of r's current unit is taking place.
FoldStep(r) == pc[r] = "Fold" /\ pc'[r] = "LoopHead"

\* C14 (as claimed): after the unit at ordinal i has been folded, the interim
\* mapping holds at least one key that unit wrote, whatever its output was.
C14_EveryUnitContributes ==
    [][\A r \in Reqs :
          FoldStep(r) =>
              \E k \in DOMAIN Writes(loc[r].i, loc[r].out) :
                  /\ k \in DOMAIN loc'[r].interim
                  /\ loc'[r].interim[k] = Writes(loc[r].i, loc[r].out)[k]]_vars

\* C14 (amended): after the fold the interim mapping holds every key of a
\* mapping output with the unit's value, and block_<i>_raw with the verbatim
\* output for any other output, the empty string included; nothing else
\* changes.  A unit printing the empty mapping contributes no key: the interim
\* mapping is as it was.
C14_OutputNeverDropped ==
    [][\A r \in Reqs :
          FoldStep(r) =>
              LET i == loc[r].i
                  out == loc[r].out
                  p == json_loads(Strip(out))
                  new == loc'[r].interim
              IN /\ \A k \in DOMAIN Writes(i, out) :
                        k \in DOMAIN new /\ new[k] = Writes(i, out)[k]
                 /\ \A k \in DOMAIN new \ DOMAIN Writes(i, out) :
                        k \in DOMAIN loc[r].interim /\ new[k] = loc[r].interim[k]
                 /\ DOMAIN loc[r].interim \subseteq DOMAIN new
                 /\ ~(p.ok /\ IsDict(p.v)) =>
                        (RawKey(i) \in DOMAIN new /\ new[RawKey(i)] = PyText(out))
                 /\ (p.ok /\ IsDict(p.v) /\ DOMAIN p.v[2] = {}) => new = loc[r].interim]_vars

\* A unit that printed nothing has been folded: block_0_raw holds the empty
\* string.
C14_Witness ==
    \E r \in Reqs :
        /\ pc[r] = "LoopHead"
        /\ loc[r].outs = <<(<< >>)>>
        /\ loc[r].interim = [k \in {RawKey(0)} |-> PyText(<< >>)]

\* r is inside a call of call_python_script.
CallStates == {"GetClient", "Create"} \cup
              {"Start", "PutArchive", "ExecCreate", "Capture", "Blocked", "Finally"}
\* What str(e) can be for an exception raised by call_python_script.
CallErrors == {"DockerException", "APIError", "ImageNotFound"}
\* The finally clause of r's current call is running.
FinallyStep(r) == pc[r] = "Finally" /\ pc'[r] # "Finally"

\* C15: when call_python_script raises (the call is left otherwise than by
\* returning its output to the fold), the request is Failed with status 500 and
\* a body holding only the error; the assembly call is not made then or later
\* (the planning call stays the only provider call), and a failed request
\* creates no further unit and its response never changes.  A pending
\* exception of the try block always ends the call this way.
C15_FailingUnitAborts ==
    [][\A r \in Reqs :
          /\ (pc[r] \in CallStates /\ pc'[r] \notin CallStates \cup {"Fold"}) =>
                /\ pc'[r] = "Failed"
                /\ response'[r].status = 500
                /\ response'[r].kind = "json"
                /\ response'[r].body \in {ErrorBody(e) : e \in CallErrors}
                /\ sent'[r] = sent[r]
                /\ Len(sent[r]) = 1 /\ sent[r][1].call = "plan"
                /\ containers' = containers \/ pc[r] = "Finally"
          /\ (pc[r] = "Finally" /\ loc[r].exc # "" /\ pc'[r] # pc[r]) => pc'[r] = "Failed"
          /\ pc[r] = "Failed" =>
                /\ pc'[r] = "Failed"
                /\ response'[r] = response[r]
                /\ sent'[r] = sent[r]
                /\ {c \in DOMAIN containers' : containers'[c].owner = r} = UnitsOf(r)]_vars

\* The second unit's call raised after the first unit's output was folded:
\* the request failed with the error alone, two units were created, and the
\* planning call is the only provider call.
C15_Witness ==
    \E r \in Reqs :
        /\ pc[r] = "Failed"
        /\ response[r] = [status |-> 500, kind |-> "json", body |-> ErrorBody("APIError")]
        /\ {containers[c].ord : c \in UnitsOf(r)} = {0, 1}
        /\ Len(sent[r]) = 1

\* C16: whatever the removal in the finally clause does, the call ends as the
\* try block left it: with output and nothing pending, that same output is
\* returned to the fold; with an exception pending, that same exception
\* propagates and is what the request fails with.
C16_TeardownFailureSwallowed ==
    [][\A r \in Reqs :
          FinallyStep(r) =>
              /\ containers'[loc[r].container].removal \in {"removed", "raised"}
              /\ IF loc[r].exc = ""
                 THEN /\ pc'[r] = "Fold"
                      /\ loc'[r].out = loc[r].out
                      /\ loc'[r].exc = ""
                 ELSE /\ pc'[r] = "Failed"
                      /\ response'[r] = [status |-> 500, kind |-> "json",
                                         body |-> ErrorBody(loc[r].exc)]]_vars

\* The removal of a unit raised and the unit is still live; its call returned
\* the output the process printed.
C16_Witness ==
    \E r \in Reqs :
        /\ pc[r] = "Fold"
        /\ containers[loc[r].container].removal = "raised"
        /\ containers[loc[r].container].state \in Live
        /\ loc[r].out = OutX("2")

\* The sandbox of unit c is gone.
TornDown(c) == containers[c].state = "Destroyed"
\* The teardown of unit c has run: the sandbox is gone, or its removal raised.
TeardownRun(c) ==
    \/ containers[c].removal = "removed" /\ containers[c].state = "Destroyed"
    \/ containers[c].removal = "raised"
\* The code of the n-th block (from 1) of a plan that lists blocks with code.
NthCode(plan, n) == plan[2]["python_blocks"][2][n][2]["code"]
HasNthCode(plan, n) ==
    /\ IsDict(plan) /\ "python_blocks" \in DOMAIN plan[2]
    /\ plan[2]["python_blocks"][1] = "arr"
    /\ n <= Len(plan[2]["python_blocks"][2])
    /\ IsDict(plan[2]["python_blocks"][2][n])
    /\ "code" \in DOMAIN plan[2]["python_blocks"][2][n][2]
    /\ Truthy(NthCode(plan, n))
\* The kinds of the provider calls r has made, in order.
Calls(r) == [n \in 1..Len(sent[r]) |-> sent[r][n].call]

\* The order of one request's steps, with Done(c) saying what "unit c is over"
\* means: the planning call precedes every unit; units are created in plan
\* order, each running its own block's code; from the start of a unit's call
\* to its end every other unit of the request is over, and folded; the assembly
\* call is made once, after as many units as the plan has blocks are folded;
\* a request answered with success made the two calls plan, assemble.
Ordering(r, Done(_)) ==
    /\ (UnitsOf(r) # {} \/ pc[r] \in SyncStates \ {"Planning"}) =>
          (Len(sent[r]) >= 1 /\ sent[r][1].call = "plan")
    /\ \A c, d \in UnitsOf(r) : c < d => containers[c].ord < containers[d].ord
    /\ {containers[c].ord : c \in UnitsOf(r)} = 0..(Cardinality(UnitsOf(r)) - 1)
    /\ pc[r] \in SyncStates \ {"Planning"} =>
          /\ \A c \in UnitsOf(r) :
                IF InCall(r) /\ c = loc[r].container
                THEN containers[c].ord = Len(loc[r].outs)
                ELSE /\ pc[r] \in CallStates => Done(c)
                     /\ \/ containers[c].ord < Len(loc[r].outs)
                        \/ pc[r] = "Fold" /\ containers[c].ord = Len(loc[r].outs)
          /\ (pc[r] \in CallStates /\ HasNthCode(loc[r].plan, loc[r].i + 1)) =>
                loc[r].full_code.code = NthCode(loc[r].plan, loc[r].i + 1)
          /\ pc[r] \in {"Assembling", "Responding"} =>
                /\ IsDict(loc[r].plan)
                /\ Len(loc[r].outs) = Cardinality(UnitsOf(r))
                /\ \A n \in 1..2 : HasNthCode(loc[r].plan, n) => Len(loc[r].outs) >= n
          /\ Calls(r) = IF pc[r] = "Responding" THEN <<"plan", "assemble">> ELSE <<"plan">>
    /\ (pc[r] = "Responded" /\ response[r].status = 200) =>
          Calls(r) = <<"plan", "assemble">>

\* C17 (as claimed): the ordering, a unit being over when its sandbox has
\* been torn down (is Destroyed).
C17_OrderingTornDown == \A r \in Reqs : Ordering(r, TornDown)

\* C17 (amended): the ordering, a unit being over when its teardown has run:
\* the sandbox is Destroyed unless its removal raised.
C17_OrderingTeardownRun == \A r \in Reqs : Ordering(r, TeardownRun)

\* A request answered with success after two units in plan order, the first
\* of which outlived its teardown.
C17_Witness ==
    \E r \in Reqs :
        /\ pc[r] = "Responded"
        /\ response[r].status = 200
        /\ Calls(r) = <<"plan", "assemble">>
        /\ \E c, d \in UnitsOf(r) :
              /\ c < d
              /\ containers[c].ord = 0 /\ containers[c].removal = "raised"
              /\ containers[d].ord = 1 /\ containers[d].state = "Destroyed"

\* The first uploaded file whose name ends in questions.txt.
SelectedQuestion(fs) ==
    fs[CHOOSE n \in 1..Len(fs) :
          /\ fs[n].filename \in QuestionNames
          /\ \A m \in 1..(n - 1) : fs[m].filename \notin QuestionNames]

\* C18 (as claimed): the question text of every call to the reasoning
\* provider, planning or assembly, is the (decoded) content of the selected
\* question file.
C18_QuestionIsSelectedFile ==
    \A r \in Reqs :
        \A n \in 1..Len(sent[r]) :
            sent[r][n].question = DecodeIgnore(SelectedQuestion(files[r]).content)

\* C19 (as claimed): whenever _get_docker_client has returned a client to a
\* call (the call is about to create its container), the base image is
\* available locally: it was found or pulled successfully before.
C19_ClientImpliesImage ==
    \A r \in Reqs : pc[r] = "Create" => imageLocal
====
